---------------------------- MODULE Spec2Model ----------------------------
(***************************************************************************)
(* The stroke triage rules engine of assessment/models.py: the Patient and *)
(* StrokeAssessment records and the derivation methods of StrokeAssessment *)
(* (time since last known well, treatment windows, NIHSS and RACE scores,  *)
(* ASPECTS interpretation, tPA eligibility, thrombectomy candidacy).       *)
(*                                                                         *)
(* Conventions.  A nullable field or an Optional result is a sequence of   *)
(* length 0 (None) or 1 (the value).  A datetime is a number of seconds, a *)
(* timedelta a (signed) number of seconds.  The float that                 *)
(* get_time_since_lkw_hours returns has two decimals and is kept as a      *)
(* number of hundredths of an hour.                                        *)
(***************************************************************************)
EXTENDS Integers, Sequences, FiniteSets, TLC

VARIABLES
    patients,      \* table Patient: primary key -> row
    assessments,   \* table StrokeAssessment: primary key -> row
    pk_seq,        \* the last primary key each table has given out
    op,            \* the derivation method called last ("none" before any call)
    self,          \* primary key of the assessment it was called on
    ret,           \* what it returned
    log            \* observer: one earlier call and its result, or None

vars == <<patients, assessments, pk_seq, op, self, ret, log>>
db == <<patients, assessments, pk_seq>>

---------------------------------------------------------------------------
(* Optional values *)

None == <<>>
Some(v) == <<v>>
Val(o) == o[1]

Max(x, y) == IF x >= y THEN x ELSE y

---------------------------------------------------------------------------
(* Rows *)

NihssFields ==
    << "nihss_1a_loc_alert", "nihss_1b_loc_questions", "nihss_1c_loc_commands",
       "nihss_2_best_gaze", "nihss_3_visual_field", "nihss_4_facial_palsy",
       "nihss_5a_motor_left_arm", "nihss_5b_motor_right_arm",
       "nihss_6a_motor_left_leg", "nihss_6b_motor_right_leg",
       "nihss_7_limb_ataxia", "nihss_8_sensory", "nihss_9_best_language",
       "nihss_10_dysarthria", "nihss_11_extinction_inattention" >>

NihssFieldSet == {NihssFields[i] : i \in 1..Len(NihssFields)}

lvo_status_choices == {"NOT_ASSESSED", "PRESENT", "ABSENT", "UNKNOWN"}

\* assessment_time of every assessment of the bounded runs (auto_now_add).
BaseTime == 100000

\* A Patient row as the form saves it.  Only last_known_well_time is nullable
\* in the table; the engine also tests arrival_time, weight_kg and the blood
\* pressures against None, so they are kept as Optional values that are always set.
\* weight_kg is in hundredths of a kilogram.
DefaultPatient ==
    [ arrival_time         |-> Some(BaseTime),
      last_known_well_time |-> None,
      weight_kg            |-> Some(8000),
      systolic_bp          |-> Some(150),
      diastolic_bp         |-> Some(90) ]

\* A StrokeAssessment row with the field defaults of the model class.
DefaultAssessment ==
    [ f \in NihssFieldSet |-> None ] @@
    [ patient                  |-> 1,
      assessment_time          |-> BaseTime,
      hemorrhage_present       |-> FALSE,
      aspects_score            |-> None,
      lvo_status               |-> "NOT_ASSESSED",
      recent_surgery           |-> FALSE,
      prior_stroke_head_trauma |-> FALSE,
      gi_urinary_hemorrhage    |-> FALSE,
      low_platelets            |-> FALSE,
      elevated_inr             |-> FALSE,
      current_anticoagulant_use |-> FALSE,
      tpa_eligibility          |-> "PENDING",
      thrombectomy_eligibility |-> "PENDING",
      treatment_recommendation |-> None ]

\* The primary key sequences of tables that hold one patient and one
\* assessment, both with primary key 1.
OneOfEach == [patient |-> 1, assessment |-> 1]

\* self.patient: the row the foreign key refers to.
PatientOf(a) == patients[a.patient]

---------------------------------------------------------------------------
(* Temporal utilities and window classifiers *)

\* bool(x) of an Optional[datetime]: a datetime is always truthy.
TruthyTime(o) == o /= None

\* bool(x) of an Optional[timedelta]: timedelta(0) is falsy.
TruthyDelta(o) == o /= None /\ Val(o) /= 0

\* calculate_time_since_lkw with the truthiness test applied to the difference.
calculate_time_since_lkw_zero_is_none(a) ==
    IF PatientOf(a).last_known_well_time /= None
       /\ a.assessment_time - Val(PatientOf(a).last_known_well_time) /= 0
    THEN Some(a.assessment_time - Val(PatientOf(a).last_known_well_time))
    ELSE None

calculate_time_since_lkw(a) ==
    IF TruthyTime(PatientOf(a).last_known_well_time) /\ TruthyTime(Some(a.assessment_time))
    THEN Some(a.assessment_time - Val(PatientOf(a).last_known_well_time))
    ELSE None

\* The whole seconds s of the modelled ranges with s/3600 halfway between two
\* hundredths (s = 36q + 18) whose IEEE double lies above the halfway point,
\* so that round(s / 3600, 2) goes up; the doubles of the other halfway values
\* lie below it and round goes down.
TieRoundsUp == {-54, 18, 16146, 16182, 21546, 21582}

\* round(seconds / 3600, 2), in hundredths of an hour.
round_hours_2(seconds) ==
    LET q == seconds \div 36
        r == seconds % 36
    IN  IF r < 18 THEN q
        ELSE IF r > 18 THEN q + 1
        ELSE IF seconds \in TieRoundsUp THEN q + 1 ELSE q

get_time_since_lkw_hours(a) ==
    LET time_delta == calculate_time_since_lkw(a)
    IN  IF TruthyDelta(time_delta) THEN Some(round_hours_2(Val(time_delta))) ELSE None

\* 4.5 hours and 6 hours, in hundredths of an hour.
TpaWindowHours == 450
ThrombectomyWindowHours == 600

\* is_within_tpa_window with a strict comparison.
is_within_tpa_window_strict(a) ==
    LET hours_since_lkw == get_time_since_lkw_hours(a)
    IN  hours_since_lkw /= None /\ Val(hours_since_lkw) < TpaWindowHours

is_within_tpa_window(a) ==
    LET hours_since_lkw == get_time_since_lkw_hours(a)
    IN  IF hours_since_lkw /= None /\ Val(hours_since_lkw) <= TpaWindowHours
        THEN TRUE ELSE FALSE

\* is_within_thrombectomy_window refusing a negative time since last known well.
is_within_thrombectomy_window_not_negative(a) ==
    LET hours_since_lkw == get_time_since_lkw_hours(a)
    IN  /\ hours_since_lkw /= None
        /\ Val(hours_since_lkw) >= 0
        /\ Val(hours_since_lkw) <= ThrombectomyWindowHours

is_within_thrombectomy_window(a) ==
    LET hours_since_lkw == get_time_since_lkw_hours(a)
    IN  IF hours_since_lkw /= None /\ Val(hours_since_lkw) <= ThrombectomyWindowHours
        THEN TRUE ELSE FALSE

---------------------------------------------------------------------------
(* Score calculators *)

\* The loop of calculate_nihss_total_score from component i on: the first
\* component that is None ends it with None.
RECURSIVE nihss_sum_from(_, _, _)
nihss_sum_from(nihss_components, i, total_score) ==
    IF i > Len(nihss_components) THEN Some(total_score)
    ELSE IF nihss_components[i] /= None
         THEN nihss_sum_from(nihss_components, i + 1, total_score + Val(nihss_components[i]))
         ELSE None

\* calculate_nihss_total_score with a missing component counted as 0.
calculate_nihss_total_score_partial(a) ==
    LET RECURSIVE skip(_, _)
        skip(i, total_score) ==
            IF i > Len(NihssFields) THEN Some(total_score)
            ELSE IF a[NihssFields[i]] /= None
                 THEN skip(i + 1, total_score + Val(a[NihssFields[i]]))
                 ELSE skip(i + 1, total_score)
    IN  skip(1, 0)

calculate_nihss_total_score(a) ==
    LET nihss_components == [i \in 1..Len(NihssFields) |-> a[NihssFields[i]]]
    IN  nihss_sum_from(nihss_components, 1, 0)

\* The points of the worse of two limbs, or of the one that is set.
motor_score(left, right) ==
    IF left /= None /\ right /= None
    THEN LET worse == Max(Val(left), Val(right))
         IN  IF worse >= 4 THEN 2 ELSE IF worse >= 2 THEN 1 ELSE 0
    ELSE IF left /= None
    THEN IF Val(left) >= 4 THEN 2 ELSE IF Val(left) >= 2 THEN 1 ELSE 0
    ELSE IF right /= None
    THEN IF Val(right) >= 4 THEN 2 ELSE IF Val(right) >= 2 THEN 1 ELSE 0
    ELSE 0

required_race_components(a) ==
    << a.nihss_4_facial_palsy,
       a.nihss_5a_motor_left_arm, a.nihss_5b_motor_right_arm,
       a.nihss_6a_motor_left_leg, a.nihss_6b_motor_right_leg,
       a.nihss_2_best_gaze,
       a.nihss_9_best_language,
       a.nihss_11_extinction_inattention >>

calculate_race_score(a) ==
    LET facial == IF a.nihss_4_facial_palsy /= None
                  THEN IF Val(a.nihss_4_facial_palsy) = 1 THEN 1
                       ELSE IF Val(a.nihss_4_facial_palsy) >= 2 THEN 2 ELSE 0
                  ELSE 0
        arm_motor_score == motor_score(a.nihss_5a_motor_left_arm, a.nihss_5b_motor_right_arm)
        leg_motor_score == motor_score(a.nihss_6a_motor_left_leg, a.nihss_6b_motor_right_leg)
        gaze == IF a.nihss_2_best_gaze /= None
                THEN IF Val(a.nihss_2_best_gaze) = 1 THEN 1
                     ELSE IF Val(a.nihss_2_best_gaze) = 2 THEN 2 ELSE 0
                ELSE 0
        aphasia == IF a.nihss_9_best_language /= None
                      /\ Val(a.nihss_9_best_language) >= 2 THEN 2 ELSE 0
        agnosia == IF a.nihss_11_extinction_inattention /= None
                      /\ Val(a.nihss_11_extinction_inattention) >= 1 THEN 1 ELSE 0
        race_score == facial + arm_motor_score + leg_motor_score + gaze + aphasia + agnosia
        required == required_race_components(a)
    IN  IF \E i \in 1..Len(required) : required[i] = None
        THEN None
        ELSE Some(race_score)

---------------------------------------------------------------------------
(* ASPECTS interpretation, tPA eligibility and thrombectomy candidacy *)

get_aspects_interpretation(a) ==
    IF a.aspects_score = None THEN "ASPECTS score not available."
    ELSE IF Val(a.aspects_score) = 10 THEN "Normal CT scan (no early ischemic changes)."
    ELSE IF Val(a.aspects_score) >= 8 THEN "Mild early ischemic changes."
    ELSE IF Val(a.aspects_score) >= 5 THEN "Moderate early ischemic changes."
    ELSE IF Val(a.aspects_score) >= 0
         THEN "Severe early ischemic changes (significant infarction)."
    ELSE "Invalid ASPECTS score."

\* get_tpa_eligibility_status with the hemorrhage test ahead of the window test.
get_tpa_eligibility_status_hemorrhage_first(a) ==
    IF a.hemorrhage_present THEN "Contraindicated (Intracranial Hemorrhage)"
    ELSE IF ~is_within_tpa_window(a) THEN "Not Eligible (Outside Time Window)"
    ELSE IF PatientOf(a).systolic_bp /= None /\ Val(PatientOf(a).systolic_bp) > 185
         THEN "Contraindicated (BP > 185 mmHg)"
    ELSE IF PatientOf(a).diastolic_bp /= None /\ Val(PatientOf(a).diastolic_bp) > 110
         THEN "Contraindicated (BP > 110 mmHg)"
    ELSE IF a.recent_surgery \/ a.prior_stroke_head_trauma \/ a.gi_urinary_hemorrhage
         THEN "Contraindicated (Major Bleeding Risk Factors)"
    ELSE IF a.low_platelets THEN "Contraindicated (Low Platelets)"
    ELSE IF a.elevated_inr THEN "Contraindicated (Elevated INR)"
    ELSE IF a.current_anticoagulant_use THEN "Contraindicated (Current Anticoagulant Use)"
    ELSE "Potentially Eligible"

\* get_tpa_eligibility_status deferring to a stored contraindication.
get_tpa_eligibility_status_reads_stored(a) ==
    IF a.tpa_eligibility = "CONTRAINDICATED" THEN "Contraindicated (Recorded)"
    ELSE IF ~is_within_tpa_window(a) THEN "Not Eligible (Outside Time Window)"
    ELSE IF a.hemorrhage_present THEN "Contraindicated (Intracranial Hemorrhage)"
    ELSE IF PatientOf(a).systolic_bp /= None /\ Val(PatientOf(a).systolic_bp) > 185
         THEN "Contraindicated (BP > 185 mmHg)"
    ELSE IF PatientOf(a).diastolic_bp /= None /\ Val(PatientOf(a).diastolic_bp) > 110
         THEN "Contraindicated (BP > 110 mmHg)"
    ELSE IF a.recent_surgery \/ a.prior_stroke_head_trauma \/ a.gi_urinary_hemorrhage
         THEN "Contraindicated (Major Bleeding Risk Factors)"
    ELSE IF a.low_platelets THEN "Contraindicated (Low Platelets)"
    ELSE IF a.elevated_inr THEN "Contraindicated (Elevated INR)"
    ELSE IF a.current_anticoagulant_use THEN "Contraindicated (Current Anticoagulant Use)"
    ELSE "Potentially Eligible"

get_tpa_eligibility_status(a) ==
    IF ~is_within_tpa_window(a) THEN "Not Eligible (Outside Time Window)"
    ELSE IF a.hemorrhage_present THEN "Contraindicated (Intracranial Hemorrhage)"
    ELSE IF PatientOf(a).systolic_bp /= None /\ Val(PatientOf(a).systolic_bp) > 185
         THEN "Contraindicated (BP > 185 mmHg)"
    ELSE IF PatientOf(a).diastolic_bp /= None /\ Val(PatientOf(a).diastolic_bp) > 110
         THEN "Contraindicated (BP > 110 mmHg)"
    ELSE IF a.recent_surgery \/ a.prior_stroke_head_trauma \/ a.gi_urinary_hemorrhage
         THEN "Contraindicated (Major Bleeding Risk Factors)"
    ELSE IF a.low_platelets THEN "Contraindicated (Low Platelets)"
    ELSE IF a.elevated_inr THEN "Contraindicated (Elevated INR)"
    ELSE IF a.current_anticoagulant_use THEN "Contraindicated (Current Anticoagulant Use)"
    ELSE "Potentially Eligible"

\* get_thrombectomy_candidacy without the hemorrhage test.
get_thrombectomy_candidacy_no_hemorrhage_test(a) ==
    IF ~is_within_thrombectomy_window(a) THEN "Not Candidate (Outside Time Window)"
    ELSE IF a.lvo_status /= "PRESENT" THEN "Not Candidate (No LVO Detected)"
    ELSE IF a.aspects_score = None THEN "Pending (ASPECTS Score Missing)"
    ELSE IF Val(a.aspects_score) < 6 THEN "Not Candidate (ASPECTS < 6)"
    ELSE "Potentially Candidate"

\* get_thrombectomy_candidacy with the ASPECTS tests ahead of the LVO test.
get_thrombectomy_candidacy_aspects_first(a) ==
    IF ~is_within_thrombectomy_window(a) THEN "Not Candidate (Outside Time Window)"
    ELSE IF a.hemorrhage_present THEN "Not Candidate (Intracranial Hemorrhage)"
    ELSE IF a.aspects_score = None THEN "Pending (ASPECTS Score Missing)"
    ELSE IF Val(a.aspects_score) < 6 THEN "Not Candidate (ASPECTS < 6)"
    ELSE IF a.lvo_status /= "PRESENT" THEN "Not Candidate (No LVO Detected)"
    ELSE "Potentially Candidate"

get_thrombectomy_candidacy(a) ==
    IF ~is_within_thrombectomy_window(a) THEN "Not Candidate (Outside Time Window)"
    ELSE IF a.hemorrhage_present THEN "Not Candidate (Intracranial Hemorrhage)"
    ELSE IF a.lvo_status /= "PRESENT" THEN "Not Candidate (No LVO Detected)"
    ELSE IF a.aspects_score = None THEN "Pending (ASPECTS Score Missing)"
    ELSE IF Val(a.aspects_score) < 6 THEN "Not Candidate (ASPECTS < 6)"
    ELSE "Potentially Candidate"

---------------------------------------------------------------------------
(* Recommendation composer *)

\* get_bp_management_target with the thrombectomy test ahead of the tPA test.
get_bp_management_target_thrombectomy_first(a) ==
    LET tpa_eligibility == get_tpa_eligibility_status(a)
        thrombectomy_candidacy == get_thrombectomy_candidacy(a)
    IN  IF thrombectomy_candidacy = "Potentially Candidate"
        THEN "Target BP < 185/110 mmHg (for thrombectomy)"
        ELSE IF tpa_eligibility = "Potentially Eligible"
        THEN "Target BP < 185/110 mmHg (for tPA)"
        ELSE "Target BP < 220/120 mmHg (permissive hypertension)"

get_bp_management_target(a) ==
    LET tpa_eligibility == get_tpa_eligibility_status(a)
        thrombectomy_candidacy == get_thrombectomy_candidacy(a)
    IN  IF tpa_eligibility = "Potentially Eligible"
        THEN "Target BP < 185/110 mmHg (for tPA)"
        ELSE IF thrombectomy_candidacy = "Potentially Candidate"
        THEN "Target BP < 185/110 mmHg (for thrombectomy)"
        ELSE "Target BP < 220/120 mmHg (permissive hypertension)"

\* get_stroke_center_recommendation with the NIHSS threshold taken strictly.
get_stroke_center_recommendation_above_5(a) ==
    LET thrombectomy_candidacy == get_thrombectomy_candidacy(a)
        nihss_score == calculate_nihss_total_score(a)
    IN  IF thrombectomy_candidacy = "Potentially Candidate"
        THEN "Comprehensive Stroke Center (CSC) recommended for thrombectomy."
        ELSE IF nihss_score /= None /\ Val(nihss_score) > 5
        THEN "Primary Stroke Center (PSC) recommended for IV thrombolysis and stroke care."
        ELSE "Acute Stroke Ready Hospital (ASRH) or general hospital for initial stabilization."

get_stroke_center_recommendation(a) ==
    LET thrombectomy_candidacy == get_thrombectomy_candidacy(a)
        nihss_score == calculate_nihss_total_score(a)
    IN  IF thrombectomy_candidacy = "Potentially Candidate"
        THEN "Comprehensive Stroke Center (CSC) recommended for thrombectomy."
        ELSE IF nihss_score /= None /\ Val(nihss_score) >= 5
        THEN "Primary Stroke Center (PSC) recommended for IV thrombolysis and stroke care."
        ELSE "Acute Stroke Ready Hospital (ASRH) or general hospital for initial stabilization."

\* The words of the texts get_stroke_center_recommendation returns.
Words(text) ==
    CASE text = "Comprehensive Stroke Center (CSC) recommended for thrombectomy." ->
           <<"Comprehensive", "Stroke", "Center", "(CSC)", "recommended", "for",
             "thrombectomy.">>
      [] text = "Primary Stroke Center (PSC) recommended for IV thrombolysis and stroke care." ->
           <<"Primary", "Stroke", "Center", "(PSC)", "recommended", "for", "IV",
             "thrombolysis", "and", "stroke", "care.">>
      [] text = "Acute Stroke Ready Hospital (ASRH) or general hospital for initial stabilization." ->
           <<"Acute", "Stroke", "Ready", "Hospital", "(ASRH)", "or", "general",
             "hospital", "for", "initial", "stabilization.">>

\* needle in text, for a needle of whole words: the needle is a run of
\* consecutive words of the text.
StrIn(needle, text) ==
    \E i \in 1..(Len(Words(text)) - Len(needle) + 1) :
        SubSeq(Words(text), i, i + Len(needle) - 1) = needle

\* get_transfer_recommendation looking for "Stroke Center" alone.
get_transfer_recommendation_any_center(a) ==
    LET center_recommendation == get_stroke_center_recommendation(a)
    IN  IF StrIn(<<"Stroke", "Center">>, center_recommendation)
        THEN "Consider immediate transfer to a Comprehensive Stroke Center (CSC) for advanced care."
        ELSE IF StrIn(<<"Primary", "Stroke", "Center", "(PSC)">>, center_recommendation)
        THEN "Consider transfer to a Primary Stroke Center (PSC) if not at one."
        ELSE "No immediate transfer recommended based on current findings."

get_transfer_recommendation(a) ==
    LET center_recommendation == get_stroke_center_recommendation(a)
    IN  IF StrIn(<<"Comprehensive", "Stroke", "Center", "(CSC)">>, center_recommendation)
        THEN "Consider immediate transfer to a Comprehensive Stroke Center (CSC) for advanced care."
        ELSE IF StrIn(<<"Primary", "Stroke", "Center", "(PSC)">>, center_recommendation)
        THEN "Consider transfer to a Primary Stroke Center (PSC) if not at one."
        ELSE "No immediate transfer recommended based on current findings."

---------------------------------------------------------------------------
(* tPA dose and critical time targets *)

\* calculate_tpa_dose without the 90 mg ceiling.
calculate_tpa_dose_unclamped(a) ==
    IF PatientOf(a).weight_kg /= None
    THEN Some(9 * Val(PatientOf(a).weight_kg))
    ELSE None

\* The dose in thousandths of a milligram: weight_kg is in hundredths of a
\* kilogram, so float(weight_kg) * 0.9 is 9 thousandths per hundredth (the
\* double differs from this by less than 1e-12 and compares with 90.0 alike).
calculate_tpa_dose(a) ==
    IF PatientOf(a).weight_kg /= None
    THEN LET calculated_dose == 9 * Val(PatientOf(a).weight_kg)
         IN  Some(IF calculated_dose <= 90000 THEN calculated_dose ELSE 90000)
    ELSE None

\* (t).strftime('%H:%M'): the hour and the minute of the day of datetime t.
strftime_HM(t) == [H |-> (t \div 3600) % 24, M |-> (t \div 60) % 60]

\* timedelta(minutes = m), in seconds.
timedelta_minutes(m) == 60 * m

\* get_critical_time_targets with the needle and groin puncture delays exchanged.
get_critical_time_targets_swapped(a) ==
    [ k \in {"Door-to-CT Target", "Door-to-Needle (tPA) Target",
             "Door-to-Groin Puncture Target"} |->
        IF k = "Door-to-CT Target"
        THEN strftime_HM(Val(PatientOf(a).arrival_time) + timedelta_minutes(20))
        ELSE IF k = "Door-to-Needle (tPA) Target"
        THEN strftime_HM(Val(PatientOf(a).arrival_time) + timedelta_minutes(90))
        ELSE strftime_HM(Val(PatientOf(a).arrival_time) + timedelta_minutes(60)) ]

\* The dict targets: a function from its keys to the formatted times.
get_critical_time_targets(a) ==
    IF TruthyTime(PatientOf(a).arrival_time)
    THEN ("Door-to-CT Target" :>
              strftime_HM(Val(PatientOf(a).arrival_time) + timedelta_minutes(20)))
         @@ ("Door-to-Needle (tPA) Target" :>
              strftime_HM(Val(PatientOf(a).arrival_time) + timedelta_minutes(60)))
         @@ ("Door-to-Groin Puncture Target" :>
              strftime_HM(Val(PatientOf(a).arrival_time) + timedelta_minutes(90)))
    ELSE <<>>

---------------------------------------------------------------------------
(* Calls of the derivation methods on a stored assessment.  The methods     *)
(* read the rows and write nothing.                                        *)

\* Returns with the result also stored in the row's tpa_eligibility field.
Returns_and_stores(name, id, value) ==
    /\ id \in DOMAIN assessments
    /\ op' = name
    /\ self' = id
    /\ ret' = value
    /\ assessments' = [assessments EXCEPT ![id].tpa_eligibility =
                          IF name = "get_tpa_eligibility_status"
                             /\ value = "Potentially Eligible"
                          THEN "ELIGIBLE" ELSE @]
    /\ UNCHANGED <<patients, pk_seq>>

\* Method name, called on assessment id, returns value: no method assigns to
\* a field of the assessment or of its patient, or saves a row.
Returns(name, id, value) ==
    /\ id \in DOMAIN assessments
    /\ op' = name
    /\ self' = id
    /\ ret' = value
    /\ UNCHANGED db

Call(name, id, value) ==
    /\ Returns(name, id, value)
    /\ UNCHANGED log

Call_calculate_time_since_lkw(id) ==
    Call("calculate_time_since_lkw", id, calculate_time_since_lkw(assessments[id]))

Call_get_time_since_lkw_hours(id) ==
    Call("get_time_since_lkw_hours", id, get_time_since_lkw_hours(assessments[id]))

Call_is_within_tpa_window(id) ==
    Call("is_within_tpa_window", id, is_within_tpa_window(assessments[id]))

Call_is_within_thrombectomy_window(id) ==
    Call("is_within_thrombectomy_window", id, is_within_thrombectomy_window(assessments[id]))

Call_calculate_nihss_total_score(id) ==
    Call("calculate_nihss_total_score", id, calculate_nihss_total_score(assessments[id]))

Call_calculate_race_score(id) ==
    Call("calculate_race_score", id, calculate_race_score(assessments[id]))

Call_get_aspects_interpretation(id) ==
    Call("get_aspects_interpretation", id, get_aspects_interpretation(assessments[id]))

Call_get_tpa_eligibility_status(id) ==
    Call("get_tpa_eligibility_status", id, get_tpa_eligibility_status(assessments[id]))

Call_get_thrombectomy_candidacy(id) ==
    Call("get_thrombectomy_candidacy", id, get_thrombectomy_candidacy(assessments[id]))

Call_calculate_tpa_dose(id) ==
    Call("calculate_tpa_dose", id, calculate_tpa_dose(assessments[id]))

Call_get_critical_time_targets(id) ==
    Call("get_critical_time_targets", id, get_critical_time_targets(assessments[id]))

Call_get_bp_management_target(id) ==
    Call("get_bp_management_target", id, get_bp_management_target(assessments[id]))

Call_get_stroke_center_recommendation(id) ==
    Call("get_stroke_center_recommendation", id,
         get_stroke_center_recommendation(assessments[id]))

Call_get_transfer_recommendation(id) ==
    Call("get_transfer_recommendation", id, get_transfer_recommendation(assessments[id]))

\* The derivation methods of StrokeAssessment, and the method a name is
\* bound to applied to the row a.
EngineFunctions ==
    {"calculate_time_since_lkw", "get_time_since_lkw_hours", "is_within_tpa_window",
     "is_within_thrombectomy_window", "calculate_nihss_total_score",
     "calculate_race_score", "get_aspects_interpretation",
     "get_tpa_eligibility_status", "calculate_tpa_dose", "get_thrombectomy_candidacy",
     "get_bp_management_target", "get_stroke_center_recommendation",
     "get_transfer_recommendation", "get_critical_time_targets"}

EngineResult(name, a) ==
    CASE name = "calculate_time_since_lkw" -> calculate_time_since_lkw(a)
      [] name = "get_time_since_lkw_hours" -> get_time_since_lkw_hours(a)
      [] name = "is_within_tpa_window" -> is_within_tpa_window(a)
      [] name = "is_within_thrombectomy_window" -> is_within_thrombectomy_window(a)
      [] name = "calculate_nihss_total_score" -> calculate_nihss_total_score(a)
      [] name = "calculate_race_score" -> calculate_race_score(a)
      [] name = "get_aspects_interpretation" -> get_aspects_interpretation(a)
      [] name = "get_tpa_eligibility_status" -> get_tpa_eligibility_status(a)
      [] name = "calculate_tpa_dose" -> calculate_tpa_dose(a)
      [] name = "get_thrombectomy_candidacy" -> get_thrombectomy_candidacy(a)
      [] name = "get_bp_management_target" -> get_bp_management_target(a)
      [] name = "get_stroke_center_recommendation" -> get_stroke_center_recommendation(a)
      [] name = "get_transfer_recommendation" -> get_transfer_recommendation(a)
      [] name = "get_critical_time_targets" -> get_critical_time_targets(a)

\* What the observer holds after a call.  It may start to remember the call
\* (stage 0); it then notes the first call of anything else (stage 1) and
\* the first call of the remembered method on the remembered row after that
\* (stage 2).  The remembered result is never replaced.
Observed(name, id, value) ==
    IF log = None
    THEN {None, Some([op |-> name, self |-> id, ret |-> value, stage |-> 0])}
    ELSE LET same == Val(log).op = name /\ Val(log).self = id
             stage == Val(log).stage
         IN  {Some([Val(log) EXCEPT !.stage =
                       IF stage = 0 /\ ~same THEN 1
                       ELSE IF stage = 1 /\ same THEN 2
                       ELSE stage])}

\* A call of any derivation method under the observer.
ObservedCall(name, id) ==
    /\ id \in DOMAIN assessments
    /\ Returns(name, id, EngineResult(name, assessments[id]))
    /\ log' \in Observed(name, id, EngineResult(name, assessments[id]))

---------------------------------------------------------------------------
(* SpecTime: one patient and one assessment; the time from last known well *)
(* to the assessment ranges over the neighbourhoods of 0, 4.5 h and 6 h.   *)

MaxSkew == 20

WindowSeconds == {0, 16200, 21600}

ElapsedSeconds == {w + d : w \in WindowSeconds, d \in (0 - MaxSkew)..MaxSkew}

TimePatients ==
    {[DefaultPatient EXCEPT !.last_known_well_time = lkw] :
        lkw \in {None} \cup {Some(BaseTime - e) : e \in ElapsedSeconds}}

InitTime ==
    /\ \E p \in TimePatients : patients = [i \in {1} |-> p]
    /\ assessments = [i \in {1} |-> DefaultAssessment]
    /\ op = "none"
    /\ self = 0
    /\ ret = None
    /\ pk_seq = OneOfEach
    /\ log = None

NextTime ==
    \E id \in DOMAIN assessments :
        \/ Call_calculate_time_since_lkw(id)
        \/ Call_get_time_since_lkw_hours(id)
        \/ Call_is_within_tpa_window(id)
        \/ Call_is_within_thrombectomy_window(id)

SpecTime == InitTime /\ [][NextTime]_vars

---------------------------------------------------------------------------
(* SpecScore: one patient and one assessment; the fifteen NIHSS items all  *)
(* hold one base value, except two of them, which hold any value.          *)

MaxScore == 4
MaxNegative == 1

ScoreValues == {None} \cup {Some(v) : v \in (0 - MaxNegative)..MaxScore}

ScoreAssessments ==
    {[f \in DOMAIN DefaultAssessment |->
         IF f = f1 THEN v1
         ELSE IF f = f2 THEN v2
         ELSE IF f \in NihssFieldSet THEN base
         ELSE DefaultAssessment[f]] :
        f1 \in NihssFieldSet, f2 \in NihssFieldSet,
        v1 \in ScoreValues, v2 \in ScoreValues, base \in ScoreValues}

InitScore ==
    /\ patients = [i \in {1} |-> DefaultPatient]
    /\ \E a \in ScoreAssessments : assessments = [i \in {1} |-> a]
    /\ op = "none"
    /\ self = 0
    /\ ret = None
    /\ pk_seq = OneOfEach
    /\ log = None

NextScore ==
    \E id \in DOMAIN assessments :
        \/ Call_calculate_nihss_total_score(id)
        \/ Call_calculate_race_score(id)

SpecScore == InitScore /\ [][NextScore]_vars

---------------------------------------------------------------------------
(* SpecElig: one patient and one assessment; every combination of the      *)
(* inputs of the two classifiers: the time since last known well (unknown, *)
(* 3, 5 or 7 hours), the blood pressures at and just above the limits, the *)
(* hemorrhage and contraindication flags, the LVO status and the ASPECTS   *)
(* score (unset, or from below 0 to above 10).                             *)

MaxAspectsBeyond == 1

AspectsValues == {None} \cup {Some(v) : v \in (0 - MaxAspectsBeyond)..(10 + MaxAspectsBeyond)}

EligElapsedSeconds == {10800, 18000, 25200}

EligPatients ==
    {[DefaultPatient EXCEPT !.last_known_well_time = lkw,
                            !.systolic_bp = Some(sbp),
                            !.diastolic_bp = Some(dbp)] :
        lkw \in {None} \cup {Some(BaseTime - e) : e \in EligElapsedSeconds},
        sbp \in {185, 186}, dbp \in {110, 111}}

EligAssessments ==
    {[DefaultAssessment EXCEPT !.hemorrhage_present = flags[1],
                               !.recent_surgery = flags[2],
                               !.prior_stroke_head_trauma = flags[3],
                               !.gi_urinary_hemorrhage = flags[4],
                               !.low_platelets = flags[5],
                               !.elevated_inr = flags[6],
                               !.current_anticoagulant_use = flags[7],
                               !.lvo_status = lvo,
                               !.aspects_score = aspects] :
        flags \in [1..7 -> BOOLEAN], lvo \in lvo_status_choices, aspects \in AspectsValues}

InitElig ==
    /\ \E p \in EligPatients : patients = [i \in {1} |-> p]
    /\ \E a \in EligAssessments : assessments = [i \in {1} |-> a]
    /\ op = "none"
    /\ self = 0
    /\ ret = None
    /\ pk_seq = OneOfEach
    /\ log = None

NextElig ==
    \E id \in DOMAIN assessments :
        \/ Call_get_aspects_interpretation(id)
        \/ Call_get_tpa_eligibility_status(id)
        \/ Call_get_thrombectomy_candidacy(id)

SpecElig == InitElig /\ [][NextElig]_vars

---------------------------------------------------------------------------
(* SpecPatient: one patient and one assessment; the weight is 50, 80 or    *)
(* 120 kg or within a few hundredths of 100 kg, and the arrival falls in   *)
(* the last minutes before midnight.                                       *)

MaxWeightSkew == 20
MaxMinutesBeforeMidnight == 100

WeightValues == {5000, 8000, 12000} \cup ((10000 - MaxWeightSkew)..(10000 + MaxWeightSkew))

ArrivalTimes ==
    {2 * 86400 - 60 * m + sec : m \in 0..MaxMinutesBeforeMidnight, sec \in {0, 59}}

PatientRows ==
    {[DefaultPatient EXCEPT !.weight_kg = Some(w), !.arrival_time = Some(t)] :
        w \in WeightValues, t \in ArrivalTimes}

InitPatient ==
    /\ \E p \in PatientRows : patients = [i \in {1} |-> p]
    /\ assessments = [i \in {1} |-> DefaultAssessment]
    /\ op = "none"
    /\ self = 0
    /\ ret = None
    /\ pk_seq = OneOfEach
    /\ log = None

NextPatient ==
    \E id \in DOMAIN assessments :
        \/ Call_calculate_tpa_dose(id)
        \/ Call_get_critical_time_targets(id)

SpecPatient == InitPatient /\ [][NextPatient]_vars

---------------------------------------------------------------------------
(* SpecRec: one patient and one assessment; every combination of the       *)
(* inputs of the recommendations: the patients of SpecElig, the hemorrhage *)
(* and contraindication flags, the LVO status, an ASPECTS score unset or   *)
(* at either side of 6, and NIHSS items that are all 0 except the first,   *)
(* which is unset or makes the total 4 or 5.                               *)

RecAssessments ==
    {[f \in NihssFieldSet \ {"nihss_1a_loc_alert"} |-> Some(0)] @@
     [DefaultAssessment EXCEPT !.hemorrhage_present = flags[1],
                               !.recent_surgery = flags[2],
                               !.prior_stroke_head_trauma = flags[3],
                               !.gi_urinary_hemorrhage = flags[4],
                               !.low_platelets = flags[5],
                               !.elevated_inr = flags[6],
                               !.current_anticoagulant_use = flags[7],
                               !.lvo_status = lvo,
                               !.aspects_score = aspects,
                               !.nihss_1a_loc_alert = first] :
        flags \in [1..7 -> BOOLEAN], lvo \in lvo_status_choices,
        aspects \in {None, Some(5), Some(6)},
        first \in {None, Some(4), Some(5)}}

InitRec ==
    /\ \E p \in EligPatients : patients = [i \in {1} |-> p]
    /\ \E a \in RecAssessments : assessments = [i \in {1} |-> a]
    /\ op = "none"
    /\ self = 0
    /\ ret = None
    /\ pk_seq = OneOfEach
    /\ log = None

NextRec ==
    \E id \in DOMAIN assessments :
        \/ Call_get_tpa_eligibility_status(id)
        \/ Call_get_thrombectomy_candidacy(id)
        \/ Call_get_bp_management_target(id)
        \/ Call_get_stroke_center_recommendation(id)
        \/ Call_get_transfer_recommendation(id)

SpecRec == InitRec /\ [][NextRec]_vars

---------------------------------------------------------------------------
(* SpecPure: one snapshot of a patient and an assessment, on which every   *)
(* derivation method is called in every order, any number of times, under  *)
(* the observer.                                                           *)

PurePatients ==
    {[DefaultPatient EXCEPT !.last_known_well_time = lkw] :
        lkw \in {None, Some(BaseTime - 10800)}}

PureAssessments ==
    {[f \in NihssFieldSet |-> Some(1)] @@
     [DefaultAssessment EXCEPT !.hemorrhage_present = hemorrhage,
                               !.lvo_status = lvo,
                               !.aspects_score = Some(7)] :
        hemorrhage \in BOOLEAN, lvo \in {"PRESENT", "ABSENT"}}

InitPure ==
    /\ \E p \in PurePatients : patients = [i \in {1} |-> p]
    /\ \E a \in PureAssessments : assessments = [i \in {1} |-> a]
    /\ op = "none"
    /\ self = 0
    /\ ret = None
    /\ pk_seq = OneOfEach
    /\ log = None

NextPure ==
    \E id \in DOMAIN assessments : \E name \in EngineFunctions : ObservedCall(name, id)

SpecPure == InitPure /\ [][NextPure]_vars

---------------------------------------------------------------------------
(* SpecStored: one patient with two assessments that are equal in every    *)
(* field except the stored decisions: assessment 2 keeps the defaults,     *)
(* assessment 1 holds any choice of the two eligibilities and a            *)
(* recommendation text or none.                                            *)

eligibility_choices == {"ELIGIBLE", "NOT_ELIGIBLE", "CONTRAINDICATED", "PENDING"}

StoredPatients ==
    {[DefaultPatient EXCEPT !.last_known_well_time = lkw] :
        lkw \in {None} \cup {Some(BaseTime - e) : e \in EligElapsedSeconds}}

StoredBases ==
    {[f \in NihssFieldSet |-> Some(1)] @@
     [DefaultAssessment EXCEPT !.hemorrhage_present = hemorrhage,
                               !.lvo_status = lvo,
                               !.aspects_score = aspects] :
        hemorrhage \in BOOLEAN, lvo \in {"PRESENT", "ABSENT"},
        aspects \in {None, Some(5), Some(6)}}

StoredDecisions ==
    [tpa_eligibility : eligibility_choices,
     thrombectomy_eligibility : eligibility_choices,
     treatment_recommendation : {None, Some("IV tPA, then transfer")}]

InitStored ==
    /\ \E p \in StoredPatients : patients = [i \in {1} |-> p]
    /\ \E a \in StoredBases : \E d \in StoredDecisions :
          assessments = (1 :> (d @@ a)) @@ (2 :> a)
    /\ op = "none"
    /\ self = 0
    /\ ret = None
    /\ pk_seq = [patient |-> 1, assessment |-> 2]
    /\ log = None

NextStored ==
    \E id \in DOMAIN assessments :
        \/ Call_calculate_time_since_lkw(id)
        \/ Call_get_time_since_lkw_hours(id)
        \/ Call_is_within_tpa_window(id)
        \/ Call_is_within_thrombectomy_window(id)
        \/ Call_calculate_nihss_total_score(id)
        \/ Call_calculate_race_score(id)
        \/ Call_get_aspects_interpretation(id)
        \/ Call_get_tpa_eligibility_status(id)
        \/ Call_calculate_tpa_dose(id)
        \/ Call_get_thrombectomy_candidacy(id)
        \/ Call_get_bp_management_target(id)
        \/ Call_get_stroke_center_recommendation(id)
        \/ Call_get_transfer_recommendation(id)
        \/ Call_get_critical_time_targets(id)

SpecStored == InitStored /\ [][NextStored]_vars

---------------------------------------------------------------------------
(* The views that create and delete rows.  Each handles one request; ret   *)
(* holds the response.  The tables start empty in SpecCrud.                *)

MaxPatientKeys == 3
MaxAssessmentKeys == 3

HttpMethods == {"GET", "POST"}

\* The response of the view called name.
Respond(name, response) ==
    /\ op' = name
    /\ self' = 0
    /\ ret' = response
    /\ UNCHANGED log

\* get_object_or_404(Patient, pk=patient_id) finds a row.
PatientFound(patient_id) == patient_id \in DOMAIN patients

\* Model.delete() of a patient: the rows whose foreign key is declared with
\* on_delete=CASCADE go with it.
delete_patient(patient_id) ==
    /\ patients' = [id \in DOMAIN patients \ {patient_id} |-> patients[id]]
    /\ assessments' = [id \in {i \in DOMAIN assessments :
                                  assessments[i].patient /= patient_id}
                          |-> assessments[id]]
    /\ UNCHANGED pk_seq

\* patient_form_view: a valid POST saves the form's patient under the next
\* primary key; anything else shows the form.
patient_form_view(method, valid, cleaned) ==
    IF method = "POST" /\ valid
    THEN /\ pk_seq.patient < MaxPatientKeys
         /\ patients' = ((pk_seq.patient + 1) :> cleaned) @@ patients
         /\ pk_seq' = [pk_seq EXCEPT !.patient = @ + 1]
         /\ UNCHANGED assessments
         /\ Respond("patient_form_view", "redirect stroke_assessment_form")
    ELSE /\ UNCHANGED db
         /\ Respond("patient_form_view", "render patient_form.html")

\* stroke_assessment_form_view: 404 unless the patient exists; a valid POST
\* saves the form's assessment with that patient under the next primary key.
stroke_assessment_form_view(patient_id, method, valid, cleaned) ==
    IF ~PatientFound(patient_id)
    THEN /\ UNCHANGED db
         /\ Respond("stroke_assessment_form_view", "404")
    ELSE IF method = "POST" /\ valid
    THEN /\ pk_seq.assessment < MaxAssessmentKeys
         /\ assessments' = ((pk_seq.assessment + 1) :>
                               [cleaned EXCEPT !.patient = patient_id]) @@ assessments
         /\ pk_seq' = [pk_seq EXCEPT !.assessment = @ + 1]
         /\ UNCHANGED patients
         /\ Respond("stroke_assessment_form_view", "redirect assessment_detail")
    ELSE /\ UNCHANGED db
         /\ Respond("stroke_assessment_form_view", "render stroke_assessment_form.html")

\* patient_delete_view that deletes the patient's row alone.
patient_delete_view_row_only(patient_id, method) ==
    IF ~PatientFound(patient_id)
    THEN /\ UNCHANGED db
         /\ Respond("patient_delete_view", "404")
    ELSE IF method = "POST"
    THEN /\ patients' = [id \in DOMAIN patients \ {patient_id} |-> patients[id]]
         /\ UNCHANGED <<assessments, pk_seq>>
         /\ Respond("patient_delete_view", "redirect patient_list")
    ELSE /\ UNCHANGED db
         /\ Respond("patient_delete_view", "render patient_delete_confirm.html")

\* patient_delete_view: 404 unless the patient exists; POST deletes it, GET
\* asks for confirmation.
patient_delete_view(patient_id, method) ==
    IF ~PatientFound(patient_id)
    THEN /\ UNCHANGED db
         /\ Respond("patient_delete_view", "404")
    ELSE IF method = "POST"
    THEN /\ delete_patient(patient_id)
         /\ Respond("patient_delete_view", "redirect patient_list")
    ELSE /\ UNCHANGED db
         /\ Respond("patient_delete_view", "render patient_delete_confirm.html")

---------------------------------------------------------------------------
(* SpecCrud: the tables start empty; patients and assessments are created  *)
(* and patients deleted in any order, for any patient id in the URL        *)
(* (existing, deleted or never given out).                                 *)

PatientIds == 1..(MaxPatientKeys + 1)

InitCrud ==
    /\ patients = <<>>
    /\ assessments = <<>>
    /\ pk_seq = [patient |-> 0, assessment |-> 0]
    /\ op = "none"
    /\ self = 0
    /\ ret = None
    /\ log = None

NextCrud ==
    \E method \in HttpMethods : \E valid \in BOOLEAN : \E patient_id \in PatientIds :
        \/ patient_form_view(method, valid, DefaultPatient)
        \/ stroke_assessment_form_view(patient_id, method, valid, DefaultAssessment)
        \/ patient_delete_view(patient_id, method)

SpecCrud == InitCrud /\ [][NextCrud]_vars

---------------------------------------------------------------------------
(* Properties of the temporal utilities and the window classifiers          *)
(* (checked under SpecTime)                                                 *)

\* The assessment the last call was made on, its patient's last known well
\* time and the real elapsed time in seconds.
Me == assessments[self]
Lkw == PatientOf(Me).last_known_well_time
Elapsed == Me.assessment_time - Val(Lkw)

\* C7: get_time_since_lkw_hours returns None only when last_known_well_time is
\* unset: with last_known_well_time set it returns a number of hours.
C7_HoursKnownWhenLkwSet ==
    (op = "get_time_since_lkw_hours" /\ Lkw /= None) => ret /= None

\* C8: calculate_time_since_lkw returns None if and only if the patient's
\* last_known_well_time is unset, and otherwise assessment_time minus
\* last_known_well_time.
C8_TimeSinceLkw ==
    op = "calculate_time_since_lkw" =>
        /\ (ret = None) <=> (Lkw = None)
        /\ Lkw /= None => ret = Some(Elapsed)

C8_Witness ==
    /\ op = "calculate_time_since_lkw"
    /\ Lkw /= None
    /\ ret = Some(16200)

\* C9: is_within_tpa_window is true iff the hours since last known well are
\* known and at most 4.5, is_within_thrombectomy_window iff they are known and
\* at most 6; with last_known_well_time missing both return the boolean false.
C9_WindowIffHoursWithin ==
    LET hours == get_time_since_lkw_hours(Me)
    IN  /\ op = "is_within_tpa_window" =>
              /\ ret \in BOOLEAN
              /\ ret = (hours /= None /\ Val(hours) <= 450)
              /\ Lkw = None => ret = FALSE
        /\ op = "is_within_thrombectomy_window" =>
              /\ ret \in BOOLEAN
              /\ ret = (hours /= None /\ Val(hours) <= 600)
              /\ Lkw = None => ret = FALSE

\* Exactly 4.50 hours is inside the tPA window.
C9_Witness ==
    /\ op = "is_within_tpa_window"
    /\ Lkw /= None
    /\ Elapsed = 16200
    /\ get_time_since_lkw_hours(Me) = Some(450)
    /\ ret = TRUE

\* C10: is_within_tpa_window returns true only when the real elapsed time is
\* at most 16200 seconds, is_within_thrombectomy_window only when it is at most
\* 21600 seconds.
C10_WindowNeverAdmitsLate ==
    /\ (op = "is_within_tpa_window" /\ ret = TRUE) =>
           (Lkw /= None /\ Elapsed <= 16200)
    /\ (op = "is_within_thrombectomy_window" /\ ret = TRUE) =>
           (Lkw /= None /\ Elapsed <= 21600)

\* C20: with last_known_well_time set and strictly later than assessment_time
\* (a negative elapsed time), is_within_tpa_window and
\* is_within_thrombectomy_window both return true.
C20_NegativeElapsedIsWithinWindows ==
    (/\ op \in {"is_within_tpa_window", "is_within_thrombectomy_window"}
     /\ Lkw /= None
     /\ Val(Lkw) > Me.assessment_time)
        => ret = TRUE

\* Last known well 20 seconds after the assessment: inside the thrombectomy
\* window.
C20_Witness ==
    /\ op = "is_within_thrombectomy_window"
    /\ Lkw = Some(Me.assessment_time + 20)
    /\ ret = TRUE

---------------------------------------------------------------------------
(* Properties of the score calculators (checked under SpecScore)            *)

RaceFields ==
    { "nihss_4_facial_palsy", "nihss_5a_motor_left_arm", "nihss_5b_motor_right_arm",
      "nihss_6a_motor_left_leg", "nihss_6b_motor_right_leg", "nihss_2_best_gaze",
      "nihss_9_best_language", "nihss_11_extinction_inattention" }

\* The threshold tables as the claim states them.
CappedAtTwo(v) == IF v >= 2 THEN 2 ELSE v
WorseLimbPoints(left, right) ==
    LET worse == Max(left, right)
    IN  IF worse < 2 THEN 0 ELSE IF worse <= 3 THEN 1 ELSE 2
AphasiaPoints(v) == IF v < 2 THEN 0 ELSE 2
AgnosiaPoints(v) == IF v >= 1 THEN 1 ELSE 0

RaceByTables(a) ==
    CappedAtTwo(Val(a.nihss_4_facial_palsy))
    + WorseLimbPoints(Val(a.nihss_5a_motor_left_arm), Val(a.nihss_5b_motor_right_arm))
    + WorseLimbPoints(Val(a.nihss_6a_motor_left_leg), Val(a.nihss_6b_motor_right_leg))
    + CappedAtTwo(Val(a.nihss_2_best_gaze))
    + AphasiaPoints(Val(a.nihss_9_best_language))
    + AgnosiaPoints(Val(a.nihss_11_extinction_inattention))

\* C4: with all eight required sub-scores set (to values the tables cover, that
\* is none of them negative), calculate_race_score is the sum of the tables:
\* facial palsy 0->0, 1->1, >=2->2; worse arm and worse leg <2->0, 2-3->1,
\* >=4->2; gaze 0->0, 1->1, >=2->2; aphasia <2->0, >=2->2; agnosia 0->0, >=1->1.
C4_RaceIsSumOfTables ==
    (/\ op = "calculate_race_score"
     /\ \A f \in RaceFields : Me[f] /= None /\ Val(Me[f]) >= 0)
        => ret = Some(RaceByTables(Me))

\* C5: calculate_race_score returns None if and only if one of the eight
\* required sub-scores is unset, and otherwise a score from 0 to 9.
C5_RaceNoneIffUnsetElseUpTo9 ==
    op = "calculate_race_score" =>
        /\ (ret = None) <=> (\E f \in RaceFields : Me[f] = None)
        /\ ret /= None => Val(ret) \in 0..9

RECURSIVE SumOfFields(_, _)
SumOfFields(a, fields) ==
    IF fields = {} THEN 0
    ELSE LET f == CHOOSE x \in fields : TRUE
         IN  Val(a[f]) + SumOfFields(a, fields \ {f})

---------------------------------------------------------------------------
(* Properties of the classifiers (checked under SpecElig)                   *)

\* The result of the first rule of a list of <<condition, result>> pairs whose
\* condition holds.
FirstMatch(rules) ==
    LET first == CHOOSE i \in 1..Len(rules) :
                     rules[i][1] /\ \A j \in 1..(i - 1) : ~rules[j][1]
    IN  rules[first][2]

SystolicKnownAbove185 ==
    PatientOf(Me).systolic_bp /= None /\ Val(PatientOf(Me).systolic_bp) > 185
DiastolicKnownAbove110 ==
    PatientOf(Me).diastolic_bp /= None /\ Val(PatientOf(Me).diastolic_bp) > 110

TpaRules ==
    << <<~is_within_tpa_window(Me), "Not Eligible (Outside Time Window)">>,
       <<Me.hemorrhage_present, "Contraindicated (Intracranial Hemorrhage)">>,
       <<SystolicKnownAbove185, "Contraindicated (BP > 185 mmHg)">>,
       <<DiastolicKnownAbove110, "Contraindicated (BP > 110 mmHg)">>,
       <<Me.recent_surgery \/ Me.prior_stroke_head_trauma \/ Me.gi_urinary_hemorrhage,
         "Contraindicated (Major Bleeding Risk Factors)">>,
       <<Me.low_platelets, "Contraindicated (Low Platelets)">>,
       <<Me.elevated_inr, "Contraindicated (Elevated INR)">>,
       <<Me.current_anticoagulant_use, "Contraindicated (Current Anticoagulant Use)">>,
       <<TRUE, "Potentially Eligible">> >>

\* C1: get_tpa_eligibility_status returns the result of the first matching rule
\* in the order window, hemorrhage, systolic BP, diastolic BP, bleeding risk
\* factors, low platelets, elevated INR, anticoagulant use, else "Potentially
\* Eligible"; outside the window with hemorrhage present it is "Not Eligible
\* (Outside Time Window)".
C1_TpaFirstMatch ==
    op = "get_tpa_eligibility_status" =>
        /\ ret = FirstMatch(TpaRules)
        /\ (~is_within_tpa_window(Me) /\ Me.hemorrhage_present)
               => ret = "Not Eligible (Outside Time Window)"

\* Outside the window with hemorrhage present: the window rule wins.
C1_Witness ==
    /\ op = "get_tpa_eligibility_status"
    /\ ~is_within_tpa_window(Me)
    /\ Me.hemorrhage_present
    /\ ret = "Not Eligible (Outside Time Window)"

CandidacyRules ==
    << <<~is_within_thrombectomy_window(Me), "Not Candidate (Outside Time Window)">>,
       <<Me.hemorrhage_present, "Not Candidate (Intracranial Hemorrhage)">>,
       <<Me.lvo_status /= "PRESENT", "Not Candidate (No LVO Detected)">>,
       <<Me.aspects_score = None, "Pending (ASPECTS Score Missing)">>,
       <<Me.aspects_score /= None /\ Val(Me.aspects_score) < 6, "Not Candidate (ASPECTS < 6)">>,
       <<TRUE, "Potentially Candidate">> >>

\* C2: get_thrombectomy_candidacy returns the result of the first matching
\* rule in the order window, hemorrhage, LVO status not PRESENT, ASPECTS
\* unset, ASPECTS below 6, else "Potentially Candidate"; within the window,
\* without hemorrhage, with LVO absent and ASPECTS 3 it is "Not Candidate (No
\* LVO Detected)".
C2_CandidacyFirstMatch ==
    op = "get_thrombectomy_candidacy" =>
        /\ ret = FirstMatch(CandidacyRules)
        /\ (/\ is_within_thrombectomy_window(Me)
            /\ ~Me.hemorrhage_present
            /\ Me.lvo_status = "ABSENT"
            /\ Me.aspects_score = Some(3))
               => ret = "Not Candidate (No LVO Detected)"

\* Within the window, LVO absent, ASPECTS 3: the LVO rule wins.
C2_Witness ==
    /\ op = "get_thrombectomy_candidacy"
    /\ is_within_thrombectomy_window(Me)
    /\ ~Me.hemorrhage_present
    /\ Me.lvo_status = "ABSENT"
    /\ Me.aspects_score = Some(3)
    /\ ret = "Not Candidate (No LVO Detected)"

\* The ASPECTS categories as the claim states them.
AspectsCategory(score) ==
    IF score = None THEN "ASPECTS score not available."
    ELSE IF Val(score) = 10 THEN "Normal CT scan (no early ischemic changes)."
    ELSE IF Val(score) \in 8..9 THEN "Mild early ischemic changes."
    ELSE IF Val(score) \in 5..7 THEN "Moderate early ischemic changes."
    ELSE IF Val(score) \in 0..4 THEN "Severe early ischemic changes (significant infarction)."
    ELSE "Invalid ASPECTS score."

\* C3: get_aspects_interpretation maps unset to "not available", 10 to
\* "normal", 8-9 to "mild", 5-7 to "moderate", 0-4 to "severe" and every other
\* integer, negative or above 10, to "invalid".
C3_AspectsCategories ==
    op = "get_aspects_interpretation" => ret = AspectsCategory(Me.aspects_score)

---------------------------------------------------------------------------
(* Properties of the dose and of the time targets (checked under           *)
(* SpecPatient)                                                            *)

Weight == PatientOf(Me).weight_kg

\* C11: calculate_tpa_dose returns None if and only if the weight is unset,
\* and otherwise the smaller of 0.9 mg per kg and 90 mg, so never more than
\* 90 mg: 120 kg gives 90.0, 50 kg gives 45.0, 80 kg gives 72.0.
C11_DoseIsClampedProduct ==
    op = "calculate_tpa_dose" =>
        /\ (ret = None) <=> (Weight = None)
        /\ Weight /= None =>
              /\ Val(ret) <= 9 * Val(Weight)
              /\ Val(ret) <= 90000
              /\ Val(ret) = 9 * Val(Weight) \/ Val(ret) = 90000
        /\ Weight = Some(12000) => ret = Some(90000)
        /\ Weight = Some(5000) => ret = Some(45000)
        /\ Weight = Some(8000) => ret = Some(72000)

\* 120 kg: the product 108 mg is cut to 90 mg.
C11_Witness ==
    /\ op = "calculate_tpa_dose"
    /\ Weight = Some(12000)
    /\ ret = Some(90000)

\* The clock time, as hour and minute, m minutes after datetime t.
ClockAfter(t, m) ==
    LET minute_of_day == ((t \div 60) + m) % 1440
    IN  [H |-> minute_of_day \div 60, M |-> minute_of_day % 60]

Arrival == PatientOf(Me).arrival_time

\* C15: get_critical_time_targets returns an empty mapping without an
\* arrival_time; with one the mapping has exactly the keys door-to-CT,
\* door-to-needle and door-to-groin-puncture, holding the clock times of the
\* arrival plus 20, 60 and 90 minutes, wrapping past midnight.
C15_TimeTargets ==
    op = "get_critical_time_targets" =>
        /\ Arrival = None => DOMAIN ret = {}
        /\ Arrival /= None =>
              /\ DOMAIN ret = {"Door-to-CT Target", "Door-to-Needle (tPA) Target",
                               "Door-to-Groin Puncture Target"}
              /\ ret["Door-to-CT Target"] = ClockAfter(Val(Arrival), 20)
              /\ ret["Door-to-Needle (tPA) Target"] = ClockAfter(Val(Arrival), 60)
              /\ ret["Door-to-Groin Puncture Target"] = ClockAfter(Val(Arrival), 90)

\* An arrival at 23:30:59: the CT target is 23:50, the other two are past
\* midnight, 00:30 and 01:00.
C15_Witness ==
    /\ op = "get_critical_time_targets"
    /\ Arrival = Some(2 * 86400 - 60 * 30 + 59)
    /\ ret["Door-to-CT Target"] = [H |-> 23, M |-> 50]
    /\ ret["Door-to-Needle (tPA) Target"] = [H |-> 0, M |-> 30]
    /\ ret["Door-to-Groin Puncture Target"] = [H |-> 1, M |-> 0]

---------------------------------------------------------------------------
(* Properties of the recommendations (checked under SpecRec)               *)

BpForTpa == "Target BP < 185/110 mmHg (for tPA)"
BpForThrombectomy == "Target BP < 185/110 mmHg (for thrombectomy)"
BpPermissive == "Target BP < 220/120 mmHg (permissive hypertension)"

CenterComprehensive == "Comprehensive Stroke Center (CSC) recommended for thrombectomy."
CenterPrimary ==
    "Primary Stroke Center (PSC) recommended for IV thrombolysis and stroke care."
CenterGeneral ==
    "Acute Stroke Ready Hospital (ASRH) or general hospital for initial stabilization."

TransferComprehensive ==
    "Consider immediate transfer to a Comprehensive Stroke Center (CSC) for advanced care."
TransferPrimary == "Consider transfer to a Primary Stroke Center (PSC) if not at one."
TransferNone == "No immediate transfer recommended based on current findings."

TpaEligible == get_tpa_eligibility_status(Me) = "Potentially Eligible"
ThrombectomyCandidate == get_thrombectomy_candidacy(Me) = "Potentially Candidate"
NihssTotal == calculate_nihss_total_score(Me)

\* C12: get_bp_management_target returns the tPA target iff the tPA status is
\* "Potentially Eligible", else the thrombectomy target iff the candidacy is
\* "Potentially Candidate", else the permissive target.
C12_BpTargetComposition ==
    op = "get_bp_management_target" =>
        /\ ret \in {BpForTpa, BpForThrombectomy, BpPermissive}
        /\ (ret = BpForTpa) <=> TpaEligible
        /\ (ret = BpForThrombectomy) <=> (~TpaEligible /\ ThrombectomyCandidate)
        /\ (ret = BpPermissive) <=> (~TpaEligible /\ ~ThrombectomyCandidate)

\* Eligible for tPA and a thrombectomy candidate: the tPA target is returned.
C12_Witness ==
    /\ op = "get_bp_management_target"
    /\ TpaEligible
    /\ ThrombectomyCandidate
    /\ ret = BpForTpa

\* C13: get_stroke_center_recommendation returns the Comprehensive Stroke
\* Center iff the candidacy is "Potentially Candidate", else the Primary Stroke
\* Center iff the NIHSS total is known and at least 5, else the general
\* hospital; an unknown NIHSS total never gives the Primary Stroke Center.
C13_CenterRecommendation ==
    op = "get_stroke_center_recommendation" =>
        /\ ret \in {CenterComprehensive, CenterPrimary, CenterGeneral}
        /\ (ret = CenterComprehensive) <=> ThrombectomyCandidate
        /\ (ret = CenterPrimary) <=>
               (~ThrombectomyCandidate /\ NihssTotal /= None /\ Val(NihssTotal) >= 5)
        /\ NihssTotal = None => ret /= CenterPrimary

\* No candidate and a NIHSS total of exactly 5: the Primary Stroke Center.
C13_Witness ==
    /\ op = "get_stroke_center_recommendation"
    /\ ~ThrombectomyCandidate
    /\ NihssTotal = Some(5)
    /\ ret = CenterPrimary

\* C14: get_transfer_recommendation suggests the CSC transfer iff the center
\* recommendation is the Comprehensive one, the PSC transfer iff it is the
\* Primary one, and no immediate transfer iff it is the general one.
C14_TransferFollowsCenter ==
    op = "get_transfer_recommendation" =>
        /\ ret \in {TransferComprehensive, TransferPrimary, TransferNone}
        /\ (ret = TransferComprehensive) <=>
               (get_stroke_center_recommendation(Me) = CenterComprehensive)
        /\ (ret = TransferPrimary) <=>
               (get_stroke_center_recommendation(Me) = CenterPrimary)
        /\ (ret = TransferNone) <=>
               (get_stroke_center_recommendation(Me) = CenterGeneral)

\* The Primary Stroke Center recommended: the PSC transfer suggested.
C14_Witness ==
    /\ op = "get_transfer_recommendation"
    /\ get_stroke_center_recommendation(Me) = CenterPrimary
    /\ ret = TransferPrimary

\* C19: with hemorrhage_present true, whatever the other fields, the tPA
\* status is never "Potentially Eligible", the candidacy never "Potentially
\* Candidate", the BP target is the permissive one and the center
\* recommendation is never the Comprehensive Stroke Center.
C19_HemorrhageBlocksReperfusion ==
    /\ op = "get_tpa_eligibility_status" =>
           (Me.hemorrhage_present => ret /= "Potentially Eligible")
    /\ op = "get_thrombectomy_candidacy" =>
           (Me.hemorrhage_present => ret /= "Potentially Candidate")
    /\ op = "get_bp_management_target" =>
           (Me.hemorrhage_present => ret = BpPermissive)
    /\ op = "get_stroke_center_recommendation" =>
           (Me.hemorrhage_present => ret /= CenterComprehensive)

\* Hemorrhage within both windows, LVO present, ASPECTS 6, no other
\* contraindication: the BP target is the permissive one.
C19_Witness ==
    /\ op = "get_bp_management_target"
    /\ Me.hemorrhage_present
    /\ is_within_tpa_window(Me)
    /\ Me.lvo_status = "PRESENT"
    /\ Me.aspects_score = Some(6)
    /\ PatientOf(Me).systolic_bp = Some(185)
    /\ PatientOf(Me).diastolic_bp = Some(110)
    /\ ~(Me.recent_surgery \/ Me.prior_stroke_head_trauma \/ Me.gi_urinary_hemorrhage)
    /\ ~(Me.low_platelets \/ Me.elevated_inr \/ Me.current_anticoagulant_use)
    /\ ret = BpPermissive

---------------------------------------------------------------------------
(* Properties of the derivation methods as a whole (checked under SpecPure *)
(* and SpecStored)                                                         *)

Twin == assessments[3 - self]

StoredFields == {"tpa_eligibility", "thrombectomy_eligibility", "treatment_recommendation"}

\* C17: what any derivation method returns for an assessment is what it
\* returns for the assessment that differs from it only in tpa_eligibility,
\* thrombectomy_eligibility and treatment_recommendation; and no call changes
\* any of these three fields of any assessment.
C17_StoredDecisionsIndependent ==
    /\ [](op /= "none" => ret = EngineResult(op, Twin))
    /\ [][\A id \in DOMAIN assessments : \A f \in StoredFields :
              /\ id \in DOMAIN assessments'
              /\ assessments'[id][f] = assessments[id][f]]_vars

\* The computed status is "Potentially Eligible" while the stored field says
\* contraindicated, and the twin's stored field says pending.
C17_Witness ==
    /\ op = "get_tpa_eligibility_status"
    /\ ret = "Potentially Eligible"
    /\ Me.tpa_eligibility = "CONTRAINDICATED"
    /\ Me.treatment_recommendation /= None
    /\ Twin.tpa_eligibility = "PENDING"
    /\ Twin.treatment_recommendation = None

---------------------------------------------------------------------------
(* Properties of the stored rows (checked under SpecCrud) *)

\* The assessments of patient p in the table t.
AssessmentsOf(t, p) == {id \in DOMAIN t : t[id].patient = p}

\* C18: at all times every stored assessment refers to a stored patient;
\* a step that removes a patient removes all of its assessments, every
\* assessment whose patient stays is kept as it was, and an assessment that
\* appears refers to a patient that was stored when it appeared.
C18_AssessmentsReferToPatients ==
    /\ [](\A id \in DOMAIN assessments : assessments[id].patient \in DOMAIN patients)
    /\ [][/\ \A p \in DOMAIN patients \ DOMAIN patients' :
                 AssessmentsOf(assessments, p) \cap DOMAIN assessments' = {}
          /\ \A id \in DOMAIN assessments :
                 assessments[id].patient \in DOMAIN patients'
                     => /\ id \in DOMAIN assessments'
                        /\ assessments'[id] = assessments[id]
          /\ \A id \in DOMAIN assessments' \ DOMAIN assessments :
                 assessments'[id].patient \in DOMAIN patients]_vars

\* Two patients and three assessments were created; one deletion has just
\* removed a patient together with its two assessments, and the assessment
\* of the other patient is still there.
C18_Witness ==
    /\ op = "patient_delete_view"
    /\ ret = "redirect patient_list"
    /\ pk_seq = [patient |-> 2, assessment |-> 3]
    /\ Cardinality(DOMAIN patients) = 1
    /\ Cardinality(DOMAIN assessments) = 1

=============================================================================
